---- MODULE Spec2Model ----
(***************************************************************************)
(* Model of organize_download.py: the first-run archiver, the watchdog     *)
(* observer thread that runs DownloadHandler.on_created for one creation   *)
(* event at a time, the destination resolver and the move-with-retry loop. *)
(*                                                                         *)
(* Paths are sequences of path components relative to the watched root:    *)
(* <<"report.pdf">> is <root>/report.pdf, <<>> is the root itself. The     *)
(* root is a directory unless <<>> is among the regular files.             *)
(***************************************************************************)
EXTENDS Integers, Sequences, FiniteSets, TLC

VARIABLES
    cfg,          \* the configuration of the run (load_config's result)
    files,        \* paths of the regular files under the root
    dirs,         \* paths of the directories under the root (the root excluded)
    today,        \* index into Dates of the local date last read
    mainPc,       \* position of main()
    run,          \* which start of the process this is
    observer,     \* the watchdog observer thread: none, running, stopped, dead
    queue,        \* creation events the observer has not dispatched yet
    archTodo,     \* perform_first_time_cleanup: items of iterdir() still to come
    file_count,   \* perform_first_time_cleanup: file_count
    invocations,  \* history: one record per returned perform_first_time_cleanup
    archLog,      \* history: what iterdir() listed and how each item fared
    stats,        \* DownloadHandler.stats
    hPc,          \* position of on_created in the observer thread
    hSrc,         \* on_created: src (its name)
    prev_size,    \* on_created: prev_size
    dest,         \* on_created: dest
    attempts,     \* on_created: attempts
    h,            \* history of the event in hand (samples, move calls, snapshot)
    hOutcome,     \* how the last finished on_created call ended
    srcSize,      \* environment: current size of the file at src
    lock,         \* environment: lock another process holds on the file at src
    created,      \* environment: files created so far (bounded by MaxCreates)
    hist          \* history: destination resolutions and moves of this run

vars == <<cfg, files, dirs, today, mainPc, run, observer, queue, archTodo,
          file_count, invocations, archLog, stats, hPc, hSrc, prev_size, dest, attempts,
          h, hOutcome, srcSize, lock, created, hist>>

\* ---------------------------------------------------------------- bounds
MaxCreates == 2      \* files the environment creates in the root
MaxSize == 1         \* largest size a file grows to
MaxRetryLimit == 2   \* max_retry_attempts ranges over 1..MaxRetryLimit
MaxRuns == 2         \* starts of the process

\* ------------------------------------------------------------- constants
MARKER_FILE == ".organized"
CONFIG_FILE == ".organize_config.json"
LOG_FILE == ".organize_log.txt"
OLD_DOWNLOAD == "old_download"
TEMP_EXTS == {".crdownload", ".part", ".tmp", ".download"}

\* Names of the files the environment creates, and of the children the root
\* holds before the first run.
FileNames == {"report.PDF", "setup.PART", "desktop.ini"}
PreNames == {"old.txt", "desktop.ini"}

\* strftime('%Y-%m-%d') of the successive local dates.
Dates == <<"2026-11-04", "2026-11-05">>

DateStr(d) == Dates[d]

\* pathlib: Path(name).suffix and Path(name).stem of the names in use.
Suffix(name) ==
    CASE name = "report.PDF" -> ".PDF"
      [] name = "setup.PART" -> ".PART"
      [] name = "desktop.ini" -> ".ini"
      [] name = "old.txt" -> ".txt"
      [] name = "photo.png" -> ".png"
      [] name = "notes.xyz" -> ".xyz"
      [] name = "Desktop.INI" -> ".INI"
      [] OTHER -> ""

Stem(name) ==
    CASE name = "report.PDF" -> "report"
      [] name = "setup.PART" -> "setup"
      [] name = "desktop.ini" -> "desktop"
      [] name = "old.txt" -> "old"
      [] name = "photo.png" -> "photo"
      [] name = "notes.xyz" -> "notes"
      [] name = "Desktop.INI" -> "Desktop"
      [] OTHER -> name

\* str.lower() on the suffixes in use.
Lower(s) ==
    CASE s = ".PDF" -> ".pdf"
      [] s = ".PART" -> ".part"
      [] s = ".INI" -> ".ini"
      [] OTHER -> s

\* The categories of the configuration, in dict order.
Categories ==
    << [name |-> "images", exts |-> {".png", ".jpg"}],
       [name |-> "documents", exts |-> {".pdf", ".txt"}] >>

\* The configurations a run may load.
Configs ==
    [ organize_by_date : BOOLEAN,
      organize_by_type : BOOLEAN,
      rename_duplicates : BOOLEAN,
      max_retry_attempts : 1..MaxRetryLimit,
      excluded_files : {{"desktop.ini"}},
      excluded_patterns : {{}},
      categories : {Categories} ]

\* The configurations of the runs that handle one creation event: the
\* categories as above or images alone, with and without a pattern.
EventConfigs ==
    [ organize_by_date : BOOLEAN,
      organize_by_type : BOOLEAN,
      rename_duplicates : BOOLEAN,
      max_retry_attempts : {1},
      excluded_files : {{"desktop.ini"}},
      excluded_patterns : {{}, {"\\.ini$"}},
      categories : {Categories, <<[name |-> "images", exts |-> {".png"}]>>} ]

\* The names of the file that event is about.
EventNames == {"photo.png", "notes.xyz", "report.PDF", "desktop.ini", "Desktop.INI"}

\* ----------------------------------------------------------- file system
Exists(p) == p \in files \/ p \in dirs

IsPrefix(p, q) == Len(p) <= Len(q) /\ SubSeq(q, 1, Len(p)) = p

\* The entries at or below p, re-rooted at q (a rename of a file or a tree).
Rebase(S, p, q) ==
    {q \o SubSeq(x, Len(p) + 1, Len(x)) : x \in {y \in S : IsPrefix(p, y)}}

Below(S, p) == {y \in S : IsPrefix(p, y)}

\* Names of the direct children of the root (Path.iterdir()).
RootChildren == {p[1] : p \in {x \in files \cup dirs : Len(x) = 1}}

\* The proper ancestors of a directory path and the path itself.
WithParents(d) == {SubSeq(d, 1, k) : k \in 1..Len(d)}

\* ------------------------------------------------------- pure functions
\* get_category: the first category, in dict order, that holds the
\* lowercased suffix; "other" when none does.
RECURSIVE FirstCategory(_, _, _)
FirstCategory(ext, categories, i) ==
    IF i > Len(categories) THEN "other"
    ELSE IF ext \in categories[i].exts THEN categories[i].name
    ELSE FirstCategory(ext, categories, i + 1)

get_category(name, categories) == FirstCategory(Lower(Suffix(name)), categories, 1)

\* re.search(pattern, name, re.IGNORECASE) for the patterns in use.
Search(pattern, name) ==
    CASE pattern = "\\.ini$" -> Lower(Suffix(name)) = ".ini"
      [] OTHER -> FALSE

\* is_excluded with the list of exact names not consulted.
is_excludedByPatternOnly(name, config) ==
    \E pattern \in config.excluded_patterns : Search(pattern, name)

is_excluded(name, config) ==
    \/ name \in config.excluded_files
    \/ \E pattern \in config.excluded_patterns : Search(pattern, name)

\* DestDir with the category folder above the date folder.
DestDirTypeFirst(name, config, date_folder) ==
    LET byType == IF config.organize_by_type
                  THEN <<get_category(name, config.categories)>> ELSE <<>>
    IN  IF config.organize_by_date THEN Append(byType, date_folder) ELSE byType

\* get_destination_path, lines 129-141: the directory the file goes to.
DestDir(name, config, date_folder) ==
    LET byDate == IF config.organize_by_date THEN <<date_folder>> ELSE <<>>
    IN  IF config.organize_by_type
        THEN Append(byDate, get_category(name, config.categories))
        ELSE byDate

\* dest_dir.mkdir(parents=True, exist_ok=True) raises when dest_dir or one of
\* its parents is a regular file.
MkdirFails(d, fileSet) == \E p \in WithParents(d) : p \in fileSet

\* get_destination_path, line 155: f"{base_name} ({counter}){extension}"
NewName(base_name, counter, extension) ==
    base_name \o " (" \o ToString(counter) \o ")" \o extension

\* FirstUnused with the first numbered name taken unseen.
FirstUnusedUnchecked(dest_dir, base_name, extension, counter, taken) ==
    Append(dest_dir, NewName(base_name, counter, extension))

\* get_destination_path, lines 152-157: the first "base (counter)ext" that
\* does not exist in dest_dir.
RECURSIVE FirstUnused(_, _, _, _, _)
FirstUnused(dest_dir, base_name, extension, counter, taken) ==
    LET new_name == NewName(base_name, counter, extension)
        dest_path == Append(dest_dir, new_name)
    IN  IF dest_path \in taken
        THEN FirstUnused(dest_dir, base_name, extension, counter + 1, taken)
        ELSE dest_path

\* DestPath with the duplicate check left out.
DestPathKeepsName(name, dest_dir, config, taken) == Append(dest_dir, name)

\* get_destination_path, lines 147-159, once dest_dir exists.
DestPath(name, dest_dir, config, taken) ==
    LET dest_path == Append(dest_dir, name)
    IN  IF config.rename_duplicates /\ dest_path \in taken
        THEN FirstUnused(dest_dir, Stem(name), Suffix(name), 1, taken)
        ELSE dest_path

\* ------------------------------------------------------------ initial state
EmptyDict == [c \in {} |-> 0]

NoStats == [total_organized |-> 0, by_category |-> EmptyDict]

NoListing == [listed |-> {}, done |-> <<>>]

NoEvent == [stats0 |-> NoStats, dirs0 |-> {}, tries |-> 0, samples |-> <<>>,
            settled |-> FALSE, resolved |-> FALSE, removed |-> FALSE,
            missed |-> FALSE]

\* The folder an earlier run of the same configuration filed report.PDF in.
EarlierDir == DestDir("report.PDF", cfg, DateStr(1))

\* A regular file without a suffix that the user put in the root between two
\* runs; its name is also a category label.
StrayFile == "documents"

\* The root as it is before the first run (some children, no marker), or the
\* root an earlier run left (marker, configuration, log, archive folder and
\* either some files already filed or a file the user put there since), or a
\* --downloads path that names a regular file.
Init ==
    /\ cfg \in Configs
    /\ \/ /\ \E pre \in {{}, PreNames} : files = {<<n>> : n \in pre}
          /\ dirs = {}
       \/ /\ \E k \in 0..2 :
                files = {<<MARKER_FILE>>, <<CONFIG_FILE>>, <<LOG_FILE>>}
                        \cup (IF k >= 1 THEN {Append(EarlierDir, "report.PDF")} ELSE {})
                        \cup (IF k >= 2 THEN {Append(EarlierDir, "report (1).PDF")} ELSE {})
          /\ dirs = {<<OLD_DOWNLOAD>>} \cup WithParents(EarlierDir)
       \/ /\ files = {<<MARKER_FILE>>, <<CONFIG_FILE>>, <<LOG_FILE>>, <<StrayFile>>}
          /\ dirs = {<<OLD_DOWNLOAD>>}
       \/ /\ files = {<<>>}
          /\ dirs = {}
    /\ today = 1
    /\ mainPc = "start"
    /\ run = 1
    /\ observer = "none"
    /\ queue = <<>>
    /\ archTodo = {}
    /\ file_count = 0
    /\ invocations = <<>>
    /\ archLog = NoListing
    /\ stats = NoStats
    /\ hPc = "idle"
    /\ hSrc = ""
    /\ prev_size = -1
    /\ dest = <<>>
    /\ attempts = 0
    /\ h = NoEvent
    /\ hOutcome = "none"
    /\ srcSize = 0
    /\ lock = "free"
    /\ created = 0
    /\ hist = <<>>

\* The watch is running on a root an earlier run left and one file has just
\* been created in it; the folder the file goes to is there already, holding
\* a file of the same name, or is not.
EventInit ==
    /\ cfg \in EventConfigs
    /\ today = 1
    /\ \E name \in EventNames, occupied \in BOOLEAN :
          LET dest_dir == DestDir(name, cfg, DateStr(today))
          IN  /\ files = {<<MARKER_FILE>>, <<CONFIG_FILE>>, <<LOG_FILE>>, <<name>>}
                         \cup (IF occupied THEN {Append(dest_dir, name)} ELSE {})
              /\ dirs = {<<OLD_DOWNLOAD>>}
                        \cup (IF occupied THEN WithParents(dest_dir) ELSE {})
              /\ queue = <<[src_path |-> name, is_directory |-> FALSE]>>
    /\ mainPc = "watching"
    /\ run = 1
    /\ observer = "running"
    /\ archTodo = {}
    /\ file_count = 0
    /\ invocations = <<[moved |-> 0, marker |-> TRUE]>>
    /\ archLog = NoListing
    /\ stats = NoStats
    /\ hPc = "idle"
    /\ hSrc = ""
    /\ prev_size = -1
    /\ dest = <<>>
    /\ attempts = 0
    /\ h = NoEvent
    /\ hOutcome = "none"
    /\ srcSize = 0
    /\ lock = "free"
    /\ created = 1
    /\ hist = <<>>

\* The children a root may hold before the first run: regular files, among
\* them one excluded by name and one that only a pattern excludes, and a
\* folder with a file in it.
ArchiveNames == {"old.txt", "report.PDF", "desktop.ini", "Desktop.INI"}
ArchiveFolder == "photos"

\* The configurations of the first run: with and without a pattern.
ArchiveConfigs ==
    {c \in EventConfigs : /\ c.organize_by_date /\ c.organize_by_type
                          /\ c.rename_duplicates /\ c.categories = Categories}

\* A root before its first run: no marker, any of these children, and perhaps
\* a configuration file the user wrote or an empty folder named old_download.
ArchiveInit ==
    /\ cfg \in ArchiveConfigs
    /\ \E pre \in SUBSET ArchiveNames, folder \in BOOLEAN, given \in BOOLEAN :
          /\ files = {<<n>> : n \in pre}
                     \cup (IF folder THEN {<<ArchiveFolder, "photo.png">>} ELSE {})
                     \cup (IF given THEN {<<CONFIG_FILE>>} ELSE {})
          /\ dirs = (IF folder THEN {<<ArchiveFolder>>} ELSE {})
                    \cup (IF given THEN {<<OLD_DOWNLOAD>>} ELSE {})
    /\ today = 1
    /\ mainPc = "start"
    /\ run = 1
    /\ observer = "none"
    /\ queue = <<>>
    /\ archTodo = {}
    /\ file_count = 0
    /\ invocations = <<>>
    /\ archLog = NoListing
    /\ stats = NoStats
    /\ hPc = "idle"
    /\ hSrc = ""
    /\ prev_size = -1
    /\ dest = <<>>
    /\ attempts = 0
    /\ h = NoEvent
    /\ hOutcome = "none"
    /\ srcSize = 0
    /\ lock = "free"
    /\ created = 0
    /\ hist = <<>>

handlerVars == <<stats, hPc, hSrc, prev_size, dest, attempts, h, hOutcome, hist>>
envVars == <<srcSize, lock, created, today>>
archVars == <<archTodo, file_count, invocations, archLog>>

\* ------------------------------------------------------------------ main
\* main, line 305: downloads.is_dir()
IsDir(root) == root \notin files

\* main, lines 304-323: when the root is not a directory, print the error and
\* return; otherwise load_config creates the configuration file when there is
\* none and setup_logging opens the log file.
Startup ==
    /\ mainPc = "start"
    /\ IF ~IsDir(<<>>)
       THEN /\ mainPc' = "exited"
            /\ UNCHANGED files
       ELSE /\ files' = files \cup {<<CONFIG_FILE>>, <<LOG_FILE>>}
            /\ mainPc' = "cleanup"
    /\ UNCHANGED <<cfg, dirs, run, observer, queue>>
    /\ UNCHANGED <<archVars, handlerVars, envVars>>

\* perform_first_time_cleanup, lines 241-254: return when the marker exists;
\* otherwise create the archive folder and list the root.
CleanupBegin ==
    /\ mainPc = "cleanup"
    /\ IF <<MARKER_FILE>> \in files
       THEN /\ invocations' = Append(invocations, [moved |-> 0, marker |-> TRUE])
            /\ mainPc' = "observe"
            /\ UNCHANGED <<dirs, archTodo, file_count, archLog>>
       ELSE IF <<OLD_DOWNLOAD>> \in files
       THEN \* mkdir(exist_ok=True) on a regular file: FileExistsError, uncaught
            /\ mainPc' = "crashed"
            /\ UNCHANGED <<dirs, archTodo, file_count, invocations, archLog>>
       ELSE /\ dirs' = dirs \cup {<<OLD_DOWNLOAD>>}
            /\ archTodo' = RootChildren \cup {OLD_DOWNLOAD}
            /\ archLog' = [listed |-> archTodo', done |-> <<>>]
            /\ file_count' = 0
            /\ mainPc' = "archiving"
            /\ UNCHANGED invocations
    /\ UNCHANGED <<cfg, files, run, observer, queue>>
    /\ UNCHANGED <<handlerVars, envVars>>

\* Reserved with the log file not among the names.
ReservedButLog(name) == name \in {OLD_DOWNLOAD, MARKER_FILE, CONFIG_FILE}

\* perform_first_time_cleanup, line 255: the names the pass leaves alone.
Reserved(name) == name \in {OLD_DOWNLOAD, MARKER_FILE, CONFIG_FILE, LOG_FILE}

\* Remaining with the pass given up at the first move that raises.
RemainingUntilFailure(todo, item, raised) == IF raised THEN {} ELSE todo \ {item}

\* perform_first_time_cleanup, lines 254 and 266-267: the except clause logs
\* the error and the for loop goes on with the items after this one.
Remaining(todo, item, raised) == todo \ {item}

\* perform_first_time_cleanup, lines 254-267: one item of the loop, in the
\* order the directory listing has. The move raises OSError when moved is
\* FALSE or the item is gone.
ArchiveItem(item, moved) ==
    /\ mainPc = "archiving"
    /\ archTodo # {}
    /\ item = CHOOSE x \in archTodo : TRUE
    /\ LET skipped == Reserved(item) \/ is_excluded(item, cfg)
           raised == ~skipped /\ (~moved \/ ~Exists(<<item>>))
       IN  /\ archTodo' = Remaining(archTodo, item, raised)
           /\ archLog' = [archLog EXCEPT !.done =
                             Append(@, [item |-> item,
                                        result |-> IF skipped THEN "skipped"
                                                   ELSE IF raised THEN "failed"
                                                   ELSE "moved"])]
           /\ IF skipped \/ raised
              THEN UNCHANGED <<files, dirs, file_count>>
              ELSE /\ files' = (files \ Below(files, <<item>>))
                               \cup Rebase(files, <<item>>, <<OLD_DOWNLOAD, item>>)
                   /\ dirs' = (dirs \ Below(dirs, <<item>>))
                              \cup Rebase(dirs, <<item>>, <<OLD_DOWNLOAD, item>>)
                   /\ file_count' = file_count + 1
    /\ UNCHANGED <<cfg, mainPc, run, observer, queue, invocations>>
    /\ UNCHANGED <<handlerVars, envVars>>

\* Touched with the marker written into the archive folder.
TouchedInArchive(fileSet) == fileSet \cup {<<OLD_DOWNLOAD, MARKER_FILE>>}

\* perform_first_time_cleanup, line 270: marker.touch()
Touched(fileSet) == fileSet \cup {<<MARKER_FILE>>}

\* perform_first_time_cleanup, lines 269-271: the loop is over.
CleanupEnd ==
    /\ mainPc = "archiving"
    /\ archTodo = {}
    /\ files' = Touched(files)
    /\ invocations' = Append(invocations,
                             [moved |-> file_count, marker |-> <<MARKER_FILE>> \in files'])
    /\ mainPc' = "observe"
    /\ UNCHANGED <<cfg, dirs, run, observer, queue, archTodo, file_count, archLog>>
    /\ UNCHANGED <<handlerVars, envVars>>

\* StartObserver with the observer started before the first-run cleanup.
StartObserverBeforeCleanup ==
    /\ mainPc = "cleanup"
    /\ observer = "none"
    /\ observer' = "running"
    /\ stats' = NoStats
    /\ UNCHANGED <<cfg, files, dirs, mainPc, run, queue>>
    /\ UNCHANGED <<hPc, hSrc, prev_size, dest, attempts, h, hOutcome, hist>>
    /\ UNCHANGED <<archVars, envVars>>

\* main, lines 330-333: a new DownloadHandler, observer.start().
StartObserver ==
    /\ mainPc = "observe"
    /\ observer = "none"
    /\ observer' = "running"
    /\ stats' = NoStats
    /\ mainPc' = "watching"
    /\ UNCHANGED <<cfg, files, dirs, run, queue>>
    /\ UNCHANGED <<hPc, hSrc, prev_size, dest, attempts, h, hOutcome, hist>>
    /\ UNCHANGED <<archVars, envVars>>

\* main, lines 341-347: KeyboardInterrupt during the sleep; observer.stop(),
\* after which the observer thread dispatches no queued event.
Interrupt ==
    /\ mainPc = "watching"
    /\ observer' = IF observer = "running" THEN "stopped" ELSE observer
    /\ mainPc' = "joining"
    /\ queue' = <<>>
    /\ UNCHANGED <<cfg, files, dirs, run>>
    /\ UNCHANGED <<archVars, handlerVars, envVars>>

\* main, line 349: observer.join() returns once the observer thread has ended,
\* which it does after the on_created call in hand returns.
Join ==
    /\ mainPc = "joining"
    /\ hPc \in {"idle", "crashed"}
    /\ mainPc' = "exited"
    /\ UNCHANGED <<cfg, files, dirs, run, observer, queue>>
    /\ UNCHANGED <<archVars, handlerVars, envVars>>

\* The exit status of the process, lines 351-352: 0 once main() has returned,
\* 1 when an exception left main(), -1 while the process runs.
ExitStatus ==
    CASE mainPc = "exited" -> 0
      [] mainPc = "crashed" -> 1
      [] OTHER -> -1

\* The program is started again on the same root.
Restart ==
    /\ mainPc = "exited"
    /\ run < MaxRuns
    /\ run' = run + 1
    /\ mainPc' = "start"
    /\ observer' = "none"
    /\ queue' = <<>>
    /\ hPc' = "idle"
    /\ hOutcome' = "none"
    /\ hist' = <<>>
    /\ hSrc' = ""
    /\ dest' = <<>>
    /\ attempts' = 0
    /\ h' = NoEvent
    /\ UNCHANGED <<cfg, files, dirs, stats, prev_size>>
    /\ UNCHANGED <<archVars, envVars>>

\* The names the duplicate renaming can give a file: its own and the numbered
\* ones (history only).
Candidates(name) ==
    {name} \cup {NewName(Stem(name), k, Suffix(name)) : k \in 1..(MaxCreates + 2)}

\* ------------------------------------------------- DownloadHandler.on_created
\* Settled with the file taken as complete once it has stopped growing or
\* has any size at all.
SettledNotSmaller(curr_size, prev) == curr_size >= prev

\* on_created, line 197: the size has not changed since the sample before.
Settled(curr_size, prev) == curr_size = prev

\* The last two of the sizes read are equal.
LastTwoEqual(sizes) == Len(sizes) >= 2 /\ sizes[Len(sizes)] = sizes[Len(sizes) - 1]

\* IsTemporary with the suffix compared as it is written.
IsTemporaryCaseSensitive(name) == Suffix(name) \in TEMP_EXTS

\* on_created, line 180: the suffix marks a download in progress.
IsTemporary(name) == Lower(Suffix(name)) \in TEMP_EXTS

\* on_created returns: the observer thread is free for the next event.
Return(outcome) ==
    /\ hPc' = "idle"
    /\ hOutcome' = outcome
    /\ prev_size' = -1
    /\ srcSize' = 0
    /\ lock' = "free"

\* on_created, lines 173-190, for the next queued event: directories,
\* temporary downloads and excluded names return at once; any other file
\* starts its delay.
Dispatch ==
    /\ observer = "running"
    /\ hPc = "idle"
    /\ queue # <<>>
    /\ LET event == Head(queue)
           src == event.src_path
       IN  /\ queue' = Tail(queue)
           /\ hSrc' = src
           /\ h' = [NoEvent EXCEPT !.stats0 = stats, !.dirs0 = dirs]
           /\ dest' = <<>>
           /\ attempts' = 0
           /\ IF event.is_directory THEN Return("directory")
              ELSE IF IsTemporary(src) THEN Return("temporary")
              ELSE IF is_excluded(src, cfg) THEN Return("excluded")
              ELSE /\ hPc' = "delay"
                   /\ hOutcome' = "none"
                   /\ UNCHANGED <<prev_size, srcSize, lock>>
    /\ UNCHANGED <<cfg, files, dirs, mainPc, run, observer, stats, hist>>
    /\ UNCHANGED <<archVars, created, today>>

\* on_created, lines 190-193: time.sleep(self.delay) is over.
DelayDone ==
    /\ hPc = "delay"
    /\ hPc' = "sampling"
    /\ prev_size' = -1
    /\ UNCHANGED <<cfg, files, dirs, mainPc, run, observer, queue>>
    /\ UNCHANGED <<stats, hSrc, dest, attempts, h, hOutcome, hist>>
    /\ UNCHANGED <<archVars, envVars>>

\* SampleResult with a missing file not told apart from a settled one.
SampleResultMissingSettles(present, locked, curr_size, prev) ==
    IF present /\ locked THEN "denied"
    ELSE IF ~present \/ curr_size = prev THEN "settled"
    ELSE "again"

\* on_created, lines 195-206: what one pass of the sampling loop comes to.
\* stat() raises FileNotFoundError for a missing file and PermissionError for
\* a locked one.
SampleResult(present, locked, curr_size, prev) ==
    IF ~present THEN "vanished"
    ELSE IF locked THEN "denied"
    ELSE IF Settled(curr_size, prev) THEN "settled"
    ELSE "again"

\* on_created, lines 194-206: one pass of the sampling loop.
Sample ==
    /\ hPc = "sampling"
    /\ LET result == SampleResult(<<hSrc>> \in files, lock # "free", srcSize, prev_size)
       IN
       IF result = "vanished"
       THEN \* return
            /\ Return("vanished")
            /\ h' = [h EXCEPT !.samples = <<>>, !.missed = <<hSrc>> \notin files]
       ELSE IF result = "denied"
       THEN \* time.sleep(2), then sample again
            /\ hPc' = "lock_wait"
            /\ UNCHANGED <<h, hOutcome, prev_size, srcSize, lock>>
       ELSE IF result = "settled"
       THEN \* break: neither size is read again
            /\ hPc' = "resolve"
            /\ h' = [h EXCEPT !.samples = <<>>,
                              !.settled = LastTwoEqual(Append(h.samples, srcSize)),
                              !.missed = <<hSrc>> \notin files]
            /\ prev_size' = -1
            /\ srcSize' = 0
            /\ UNCHANGED <<hOutcome, lock>>
       ELSE \* time.sleep(1), then sample again
            /\ hPc' = "sampling"
            /\ h' = [h EXCEPT !.samples = Append(@, srcSize)]
            /\ prev_size' = srcSize
            /\ UNCHANGED <<hOutcome, srcSize, lock>>
    /\ UNCHANGED <<cfg, files, dirs, mainPc, run, observer, queue>>
    /\ UNCHANGED <<stats, hSrc, dest, attempts, hist>>
    /\ UNCHANGED <<archVars, created, today>>

\* on_created, line 206: time.sleep(2) is over.
LockWaitDone ==
    /\ hPc = "lock_wait"
    /\ hPc' = "sampling"
    /\ UNCHANGED <<cfg, files, dirs, mainPc, run, observer, queue>>
    /\ UNCHANGED <<stats, hSrc, prev_size, dest, attempts, h, hOutcome, hist>>
    /\ UNCHANGED <<archVars, envVars>>

\* on_created, line 209: get_destination_path. The mkdir raises out of
\* on_created when a regular file is in the way, which ends the observer
\* thread; a directory created directly in the root is itself reported by the
\* watch as a creation event.
Resolve(now) ==
    /\ hPc = "resolve"
    /\ now >= today
    /\ today' = now
    /\ LET dest_dir == DestDir(hSrc, cfg, DateStr(now))
       IN  IF MkdirFails(dest_dir, files)
           THEN /\ hPc' = "crashed"
                /\ hOutcome' = "raised"
                /\ observer' = "dead"
                /\ UNCHANGED <<dirs, queue, dest, h, hist>>
           ELSE /\ dirs' = dirs \cup WithParents(dest_dir)
                /\ queue' = IF /\ dest_dir # <<>>
                               /\ <<dest_dir[1]>> \notin dirs
                               /\ observer = "running"
                            THEN Append(queue, [src_path |-> dest_dir[1],
                                                is_directory |-> TRUE])
                            ELSE queue
                /\ dest' = DestPath(hSrc, dest_dir, cfg, files \cup dirs')
                /\ h' = [h EXCEPT !.resolved = TRUE]
                /\ hist' = Append(hist,
                                  [name |-> hSrc, dir |-> dest_dir, dest |-> dest',
                                   taken |-> {n \in Candidates(hSrc) :
                                                 Append(dest_dir, n) \in files},
                                   fresh |-> dest' \notin files,
                                   moved |-> FALSE, overwrote |-> FALSE])
                /\ hPc' = "move"
                /\ UNCHANGED <<observer, hOutcome>>
    /\ attempts' = 0
    /\ UNCHANGED <<cfg, files, mainPc, run, stats, hSrc, prev_size>>
    /\ UNCHANGED <<archVars, srcSize, lock, created>>

\* Get with the stored count not read: an increment that starts from 0 again.
GetDefaultOnly(d, key) == 0

\* dict.get(key, 0)
Get(d, key) == IF key \in DOMAIN d THEN d[key] ELSE 0

\* Counted with the per-category count left as it was.
CountedTotalOnly(st, category) ==
    [total_organized |-> st.total_organized + 1, by_category |-> st.by_category]

\* on_created, lines 222-223: the statistics after one more organized file.
Counted(st, category) ==
    [total_organized |-> st.total_organized + 1,
     by_category |-> [c \in DOMAIN st.by_category \cup {category} |->
                         IF c = category THEN Get(st.by_category, category) + 1
                         ELSE st.by_category[c]]]

\* RetryAllowed with the bound off by one.
RetryAllowedOnceMore(n, max_attempts) == n <= max_attempts

\* on_created, line 216: the loop goes on while the failed attempts are
\* fewer than max_retry_attempts.
RetryAllowed(n, max_attempts) == n < max_attempts

\* on_created, lines 216-233: one pass of the retry loop. shutil.move raises
\* OSError when the source is gone or locked by another process.
MoveAttempt ==
    /\ hPc = "move"
    /\ RetryAllowed(attempts, cfg.max_retry_attempts)
    /\ IF <<hSrc>> \in files /\ lock = "free"
       THEN /\ files' = (files \ {<<hSrc>>}) \cup {dest}
            /\ stats' = Counted(stats, get_category(hSrc, cfg.categories))
            /\ hist' = [hist EXCEPT ![Len(hist)].moved = TRUE,
                                    ![Len(hist)].overwrote =
                                        dest \in files /\ dest # <<hSrc>>]
            /\ Return("success")
            /\ h' = [h EXCEPT !.tries = @ + 1, !.samples = <<>>]
            /\ UNCHANGED attempts
       ELSE /\ attempts' = attempts + 1
            /\ IF ~RetryAllowed(attempts', cfg.max_retry_attempts)
               THEN /\ Return("failure")
                    /\ h' = [h EXCEPT !.tries = @ + 1, !.samples = <<>>]
               ELSE /\ hPc' = "move"
                    /\ h' = [h EXCEPT !.tries = @ + 1]
                    /\ UNCHANGED <<hOutcome, prev_size, srcSize, lock>>
            /\ UNCHANGED <<files, stats, hist>>
    /\ UNCHANGED <<cfg, dirs, mainPc, run, observer, queue, hSrc, dest>>
    /\ UNCHANGED <<archVars, created, today>>

\* ----------------------------------------------------------- environment
\* A download starts: a new file appears in the root. The watch reports it
\* when the observer is running.
CreateFile(name) ==
    /\ mainPc \in {"archiving", "watching"}
    /\ created < MaxCreates
    /\ ~Exists(<<name>>)
    /\ files' = files \cup {<<name>>}
    /\ created' = created + 1
    /\ queue' = IF observer = "running"
                THEN Append(queue, [src_path |-> name, is_directory |-> FALSE])
                ELSE queue
    /\ UNCHANGED <<cfg, dirs, mainPc, run, observer, srcSize, lock, today>>
    /\ UNCHANGED <<archVars, handlerVars>>

\* on_created is about to read the size of the file in hand, or to move it:
\* what the environment did to the file since the last such step shows now.
InHand == hPc \in {"sampling", "move"} /\ <<hSrc>> \in files

\* The download writes more data.
Grow ==
    /\ InHand
    /\ hPc = "sampling"
    /\ srcSize < MaxSize
    /\ srcSize' = srcSize + 1
    /\ UNCHANGED <<cfg, files, dirs, mainPc, run, observer, queue, lock, created, today>>
    /\ UNCHANGED <<archVars, handlerVars>>

\* Another process locks the file; it may or may not let go of it again.
LockFile ==
    /\ InHand
    /\ lock = "free"
    /\ lock' = "held"
    /\ UNCHANGED <<cfg, files, dirs, mainPc, run, observer, queue, srcSize, created, today>>
    /\ UNCHANGED <<archVars, handlerVars>>

UnlockFile ==
    /\ InHand
    /\ lock = "held"
    /\ lock' = "free"
    /\ UNCHANGED <<cfg, files, dirs, mainPc, run, observer, queue, srcSize, created, today>>
    /\ UNCHANGED <<archVars, handlerVars>>

\* The user or another program removes the file in hand.
DeleteFile ==
    /\ InHand
    /\ files' = files \ {<<hSrc>>}
    /\ lock' = "free"
    /\ h' = [h EXCEPT !.removed = TRUE]
    /\ UNCHANGED <<cfg, dirs, mainPc, run, observer, queue, srcSize, created, today>>
    /\ UNCHANGED <<stats, hPc, hSrc, prev_size, dest, attempts, hOutcome, hist>>
    /\ UNCHANGED archVars

\* ------------------------------------------------------------ specification
\* datetime.now() is read when the destination is resolved: the date is the
\* one last read or a later one.
HandlerStep ==
    \/ Dispatch
    \/ DelayDone
    \/ Sample
    \/ LockWaitDone
    \/ \E now \in 1..Len(Dates) : Resolve(now)
    \/ MoveAttempt

MainStep ==
    \/ Startup
    \/ CleanupBegin
    \/ \E item \in archTodo, moved \in BOOLEAN : ArchiveItem(item, moved)
    \/ CleanupEnd
    \/ StartObserver
    \/ Interrupt
    \/ Join

EnvStep ==
    \/ \E name \in FileNames : CreateFile(name)
    \/ Grow
    \/ LockFile
    \/ UnlockFile
    \/ DeleteFile

Next == MainStep \/ HandlerStep \/ EnvStep

Spec == Init /\ [][Next]_vars

\* Successive starts of the program on one root, with downloads arriving and
\* the observer thread not getting to them.
RunsNext == MainStep \/ Restart \/ \E name \in FileNames : CreateFile(name)

RunsSpec == Init /\ [][RunsNext]_vars

\* The first run on a root with children of every kind, and the runs after it.
ArchiveSpec == ArchiveInit /\ [][RunsNext]_vars

\* One creation event, from its dispatch to the end of on_created, with the
\* environment acting on the file meanwhile.
EventNext == HandlerStep \/ Grow \/ LockFile \/ UnlockFile \/ DeleteFile

EventSpec == EventInit /\ [][EventNext]_vars

\* The observer thread is a running thread: a step of on_created that can be
\* taken is taken.
FairSpec == Spec /\ WF_vars(HandlerStep)

\* ================================================================ claims
Category(name) == get_category(name, cfg.categories)

\* C1: a move that succeeds on attempt N, after N-1 failed attempts, with
\* N <= max_retry_attempts, ends on_created in success after exactly N calls
\* of shutil.move, with total_organized and the count of the file's category
\* each one more than when the event was taken up and no other count changed;
\* and while the loop runs every attempt so far has failed and fewer than
\* max_retry_attempts were made, so attempt N is made for every such N.
C1_SuccessAfterRetries ==
    /\ hPc = "move" =>
          /\ h.tries = attempts
          /\ attempts < cfg.max_retry_attempts
    /\ hOutcome = "success" =>
          /\ hPc = "idle"
          /\ h.tries = attempts + 1
          /\ h.tries \in 1..cfg.max_retry_attempts
          /\ stats.total_organized = h.stats0.total_organized + 1
          /\ DOMAIN stats.by_category = DOMAIN h.stats0.by_category \cup {Category(hSrc)}
          /\ \A c \in DOMAIN stats.by_category :
                stats.by_category[c] =
                    Get(h.stats0.by_category, c) + (IF c = Category(hSrc) THEN 1 ELSE 0)

\* C1 witness: a move that succeeded on its second attempt, the last one the
\* configuration allows.
C1_Witness ==
    /\ hOutcome = "success"
    /\ h.tries = 2
    /\ cfg.max_retry_attempts = 2
    /\ stats.by_category[Category(hSrc)] = 1

\* C2: when every attempt fails, on_created ends in failure after exactly
\* max_retry_attempts calls of shutil.move; the source is still in the root
\* unless another program removed it, nothing is at the destination that was
\* not there when it was resolved, and the statistics are those of the moment
\* the event was taken up.
C2_Exhaustion ==
    hOutcome = "failure" =>
        /\ hPc = "idle"
        /\ h.tries = cfg.max_retry_attempts
        /\ attempts = cfg.max_retry_attempts
        /\ h.removed \/ <<hSrc>> \in files
        /\ hist[Len(hist)].fresh => dest \notin files
        /\ ~hist[Len(hist)].moved
        /\ stats = h.stats0

\* C2 witness: a locked file, still in place after both attempts failed.
C2_Witness ==
    /\ hOutcome = "failure"
    /\ h.tries = 2
    /\ <<hSrc>> \in files
    /\ dest \notin files

\* C3: the destination is resolved and shutil.move is called only after a
\* size sample equal to the successful sample before it, so after two
\* successful samples at least; a file whose consecutive samples all differ
\* is not resolved and not moved.
C3_SettleBeforeMove ==
    (hPc \in {"resolve", "move"} \/ h.resolved \/ h.tries > 0) => h.settled

\* C3 witness: a file that settled and was then moved.
C3_Witness ==
    /\ h.settled
    /\ hOutcome = "success"
    /\ hist[Len(hist)].moved

\* C4: when a size sample finds no file, on_created returns without raising,
\* having called shutil.move not once, resolved no destination, created no
\* directory and changed no statistics.
C4_VanishedNoEffect ==
    (h.missed \/ hOutcome = "vanished") =>
        /\ hOutcome = "vanished"
        /\ hPc = "idle"
        /\ observer # "dead"
        /\ h.tries = 0
        /\ ~h.resolved
        /\ dest = <<>>
        /\ dirs = h.dirs0
        /\ stats = h.stats0

\* C4 witness: a file removed while it was being sampled.
C4_Witness ==
    /\ hOutcome = "vanished"
    /\ h.missed
    /\ h.removed
    /\ <<hSrc>> \notin files

\* C5: a file whose every size read is denied makes on_created give up after
\* a bounded number of lock retries: once on_created waits for a lock, it
\* comes to an end.
C5_LockRetriesBounded == (hPc = "lock_wait") ~> (hPc \in {"idle", "crashed"})

\* C6: an event whose lowercased suffix is one of TEMP_EXTS makes on_created
\* return before the delay: no sample, no destination, no directory, no call
\* of shutil.move, no change of the statistics.
C6_TemporaryNeverTracked ==
    (Lower(Suffix(hSrc)) \in {".crdownload", ".part", ".tmp", ".download"}) =>
        /\ hOutcome = "temporary"
        /\ hPc = "idle"
        /\ h.samples = <<>>
        /\ h.tries = 0
        /\ ~h.settled
        /\ ~h.resolved
        /\ dest = <<>>
        /\ dirs = h.dirs0
        /\ stats = h.stats0

\* C6 witness: setup.PART, whose suffix is in TEMP_EXTS only when lowercased,
\* has been dispatched and skipped, and is still in the root.
C6_Witness ==
    /\ hSrc = "setup.PART"
    /\ hOutcome = "temporary"
    /\ <<"setup.PART">> \in files

\* C7: of the successive calls of perform_first_time_cleanup on one root only
\* the first moves anything, and the marker exists when each call returns.
C7_ArchiverIdempotent ==
    /\ \A i \in 1..Len(invocations) :
          /\ invocations[i].marker
          /\ i >= 2 => invocations[i].moved = 0
    /\ Len(invocations) >= 1 => <<MARKER_FILE>> \in files

\* C7 witness: the second call has returned; the first moved something and
\* the second found something in the root it would have moved.
C7_Witness ==
    /\ Len(invocations) = 2
    /\ invocations[1].moved >= 1
    /\ mainPc = "observe"
    /\ \E name \in RootChildren :
          name \notin {OLD_DOWNLOAD, MARKER_FILE, CONFIG_FILE, LOG_FILE, "desktop.ini"}

\* C8: the observer runs, and an event is queued or handled, only when
\* perform_first_time_cleanup has returned: every listed child processed and
\* the marker in place; the archiver moves nothing once the observer runs.
C8_ArchiverBeforeWatch ==
    (observer # "none" \/ queue # <<>> \/ hPc # "idle" \/ hOutcome # "none") =>
        /\ mainPc \in {"watching", "joining", "exited"}
        /\ archTodo = {}
        /\ Len(invocations) = run
        /\ <<MARKER_FILE>> \in files

\* C8 witness: an event is being handled after a first-run pass that moved
\* something.
C8_Witness ==
    /\ hPc = "delay"
    /\ Len(invocations) = 1
    /\ invocations[1].moved >= 1

\* Two entries of the history are about the same source name and the same
\* destination directory.
SameTarget(a, b) == a.name = b.name /\ a.dir = b.dir

\* The path of the k-th numbered name of an entry's source name.
Numbered(r, k) == Append(r.dir, NewName(Stem(r.name), k, Suffix(r.name)))

Counters == 1..(MaxCreates + 2)

HasCounter(r) == \E k \in Counters : r.dest = Numbered(r, k)

CounterOf(r) == CHOOSE k \in Counters : r.dest = Numbered(r, k)

\* C9 as stated: with rename_duplicates, two resolutions of one source name
\* into a directory that held a file of that name at the first of them return
\* two distinct paths, each a numbered name and neither an existing file.
\* (Stated for a date or category folder, where the file of that name is not
\* the source itself.)
C9_TwoResolutionsDiffer ==
    cfg.rename_duplicates =>
        \A i, j \in 1..Len(hist) :
            (/\ i < j
             /\ SameTarget(hist[i], hist[j])
             /\ hist[i].dir # <<>>
             /\ hist[i].name \in hist[i].taken) =>
                /\ hist[i].dest # hist[j].dest
                /\ HasCounter(hist[i]) /\ HasCounter(hist[j])
                /\ hist[i].fresh /\ hist[j].fresh

\* C9 amended: with rename_duplicates, a resolution into a directory that
\* holds a file of the source's name returns a numbered name that is not an
\* existing file; a second resolution returns a different path, with a larger
\* counter, when the first file was moved to the path returned first.
C9_ResolverRenames ==
    cfg.rename_duplicates =>
        /\ \A i \in 1..Len(hist) :
              hist[i].name \in hist[i].taken =>
                  /\ HasCounter(hist[i])
                  /\ hist[i].fresh
                  /\ \A k \in 1..(CounterOf(hist[i]) - 1) :
                        NewName(Stem(hist[i].name), k, Suffix(hist[i].name))
                            \in hist[i].taken
        /\ \A i, j \in 1..Len(hist) :
              (/\ i < j
               /\ SameTarget(hist[i], hist[j])
               /\ hist[i].name \in hist[i].taken
               /\ hist[i].moved) =>
                  /\ HasCounter(hist[j])
                  /\ hist[i].dest # hist[j].dest
                  /\ CounterOf(hist[j]) > CounterOf(hist[i])

\* C9 witness: two resolutions of report.PDF into a folder that held
\* report.PDF, the first file moved in between.
C9_Witness ==
    /\ cfg.rename_duplicates
    /\ cfg.organize_by_type
    /\ Len(hist) = 2
    /\ SameTarget(hist[1], hist[2])
    /\ hist[1].name \in hist[1].taken
    /\ hist[1].moved
    /\ CounterOf(hist[2]) > CounterOf(hist[1])

\* The files of the same name moved to the same folder before entry i.
MovedBefore(i) == {j \in 1..(i - 1) : hist[j].moved /\ SameTarget(hist[j], hist[i])}

\* The first entry of the run about the same name and folder as entry i.
FirstOf(i) == CHOOSE j \in 1..i :
                 /\ SameTarget(hist[j], hist[i])
                 /\ \A k \in 1..(j - 1) : ~SameTarget(hist[k], hist[i])

\* The path claim C10 gives the file of entry i.
InTurn(i) ==
    IF MovedBefore(i) = {} THEN Append(hist[i].dir, hist[i].name)
    ELSE Numbered(hist[i], Cardinality(MovedBefore(i)))

\* C10 as stated: with rename_duplicates, of the files of one name moved to
\* one date or category folder in a run the first ends at name.ext, the second
\* at name (1).ext and so on, and no move overwrites a file.
C10_FirstKeepsName ==
    cfg.rename_duplicates =>
        \A i \in 1..Len(hist) :
            (hist[i].moved /\ hist[i].dir # <<>>) =>
                (hist[i].dest = InTurn(i) /\ ~hist[i].overwrote)

\* C10 amended: with rename_duplicates, every moved file ends at a path that
\* held no file, so the moved files end at distinct paths and none overwrites
\* another; the first ends at name.ext, the second at name (1).ext and so on
\* when the folder held no file of that name or of a numbered name at the
\* first of these events.
C10_NoLossOnCollision ==
    cfg.rename_duplicates =>
        /\ \A i \in 1..Len(hist) :
              hist[i].moved =>
                  /\ hist[i].fresh
                  /\ ~hist[i].overwrote
                  /\ hist[i].dest \in files
                  /\ hist[FirstOf(i)].taken = {} => hist[i].dest = InTurn(i)
        /\ \A i, j \in 1..Len(hist) :
              (i < j /\ hist[i].moved /\ hist[j].moved) => hist[i].dest # hist[j].dest

\* C10 witness: two files named report.PDF moved to one date and category
\* folder that was empty; the second is report (1).PDF.
C10_Witness ==
    /\ cfg.rename_duplicates /\ cfg.organize_by_date /\ cfg.organize_by_type
    /\ Len(hist) = 2
    /\ hist[1].moved /\ hist[2].moved
    /\ hist[1].taken = {}
    /\ hist[1].dest = <<"2026-11-04", "documents", "report.PDF">>
    /\ hist[2].dest = <<"2026-11-04", "documents", "report (1).PDF">>

\* on_created is suspended in one of its sleeps: the initial delay, the
\* settle polling, the wait for a lock, the retry delay.
Suspended == hPc \in {"delay", "sampling", "lock_wait", "move"}

\* C11: while the handling of one file is suspended in a delay, a creation
\* event that waits for a different file can be dispatched.
C11_DispatchWhileSuspended ==
    (/\ observer = "running"
     /\ Suspended
     /\ queue # <<>>
     /\ ~Head(queue).is_directory
     /\ Head(queue).src_path # hSrc) => ENABLED Dispatch

\* The category labels get_category can return.
Labels == {cfg.categories[i].name : i \in 1..Len(cfg.categories)} \cup {"other"}

\* The moves of this run that succeeded, as entries of the history.
Moves == {i \in 1..Len(hist) : hist[i].moved}

\* C12: when no on_created call is under way, total_organized is the number
\* of successful moves and the count of each category is the number of
\* successful moves of files of that category; a category without a move has
\* no count.
C12_StatsMatchMoves ==
    (observer # "none" /\ hPc \in {"idle", "crashed"}) =>
        /\ stats.total_organized = Cardinality(Moves)
        /\ DOMAIN stats.by_category \subseteq Labels
        /\ \A c \in Labels :
              LET n == Cardinality({i \in Moves : Category(hist[i].name) = c})
              IN  IF n = 0 THEN c \notin DOMAIN stats.by_category
                  ELSE c \in DOMAIN stats.by_category /\ stats.by_category[c] = n

\* C12 witness: two files of one category were moved, one after the other.
C12_Witness ==
    /\ hPc = "idle"
    /\ Cardinality(Moves) = 2
    /\ stats.total_organized = 2
    /\ stats.by_category["documents"] = 2

\* C13: once the interrupt has been received, a handler in its delay or in
\* its settle polling does not go on to resolve a destination, no move is
\* attempted for it and no file is moved.
C13_ShutdownCancelsSettling ==
    [][(mainPc \in {"joining", "exited"}) =>
          ((hPc \in {"delay", "sampling", "lock_wait"} => hPc' # "resolve")
           /\ h'.tries = h.tries
           /\ stats' = stats)]_vars

\* C14: a failure raised while one creation event is handled (the directory
\* cannot be created, every move attempt fails) ends that on_created call
\* only: the observer thread lives on and is free for the next event.
C14_FailuresLocal ==
    (mainPc = "watching" /\ hOutcome \in {"failure", "raised"}) =>
        (observer = "running" /\ hPc = "idle")

\* C15: when the root is not a directory the process ends with a non-zero
\* exit status, having created no configuration file and no log file, run no
\* first-run pass and started no observer.
C15_InvalidRootFatal ==
    (<<>> \in files /\ mainPc # "start") =>
        /\ ExitStatus > 0
        /\ files = {<<>>}
        /\ dirs = {}
        /\ invocations = <<>>
        /\ observer = "none"

\* The labels of the categories whose set holds the lowercased suffix of a name.
Holding(name) ==
    {cfg.categories[i].name :
        i \in {j \in 1..Len(cfg.categories) : Lower(Suffix(name)) \in cfg.categories[j].exts}}

C19_ExcludedNeverOrganized ==
    (hSrc \in cfg.excluded_files) =>
        /\ hOutcome = "excluded"
        /\ hPc = "idle"
        /\ h.samples = <<>>
        /\ h.tries = 0
        /\ ~h.settled
        /\ ~h.resolved
        /\ dest = <<>>
        /\ hist = <<>>
        /\ dirs = h.dirs0
        /\ stats = h.stats0
        /\ <<hSrc>> \in files

\* C19 witness: desktop.ini, which no pattern matches as there is none, has
\* been dispatched and skipped.
C19_Witness ==
    /\ hSrc = "desktop.ini"
    /\ cfg.excluded_patterns = {}
    /\ hOutcome = "excluded"
    /\ queue = <<>>

\* C20: with neither the date nor the category folder in use and
\* rename_duplicates set, a handled file stays at its path in the root under
\* its own name.
C20_NoSelfCollision ==
    (/\ ~cfg.organize_by_date
     /\ ~cfg.organize_by_type
     /\ cfg.rename_duplicates
     /\ hOutcome = "success") =>
        /\ dest = <<hSrc>>
        /\ <<hSrc>> \in files

\* The items the pass has dealt with so far, and those of them with a result.
Done == {archLog.done[i].item : i \in 1..Len(archLog.done)}

DoneAs(result) ==
    {archLog.done[i].item : i \in {j \in 1..Len(archLog.done) : archLog.done[j].result = result}}

\* The listed names the pass has to leave alone: the archive folder, the
\* marker, the configuration file, the log file and the excluded names.
LeftAlone ==
    {n \in archLog.listed :
        \/ n \in {"old_download", ".organized", ".organize_config.json", ".organize_log.txt"}
        \/ is_excluded(n, cfg)}

\* C17: a move that fails during the first-run pass does not end the pass:
\* every listed child is dealt with or still to come, and when the pass has
\* returned every child is dealt with, each one moved into the archive folder
\* unless it was skipped or its own move failed, the marker exists, and a
\* later run moves nothing.
C17_ArchiverSurvivesFailures ==
    /\ mainPc = "archiving" => Done \cup archTodo = archLog.listed
    /\ Len(invocations) >= 1 =>
          /\ Done = archLog.listed
          /\ DoneAs("moved") = archLog.listed \ (LeftAlone \cup DoneAs("failed"))
          /\ \A n \in DoneAs("moved") : Exists(<<OLD_DOWNLOAD, n>>)
          /\ invocations[1].moved = Cardinality(DoneAs("moved"))
          /\ invocations[1].marker
          /\ <<MARKER_FILE>> \in files
          /\ \A i \in 2..Len(invocations) : invocations[i].moved = 0

\* C17 witness: the move of one child failed, a child after it was moved,
\* the marker is there and the second run has skipped the pass.
C17_Witness ==
    /\ Len(invocations) = 2
    /\ <<MARKER_FILE>> \in files
    /\ \E i, j \in 1..Len(archLog.done) :
          /\ i < j
          /\ archLog.done[i].result = "failed"
          /\ archLog.done[j].result = "moved"
          /\ Exists(<<archLog.done[i].item>>)
          /\ Exists(<<OLD_DOWNLOAD, archLog.done[j].item>>)

\* C18: the first-run pass leaves the archive folder, the marker, the
\* configuration file, the log file and every excluded child where they are
\* in the root and puts none of them into the archive folder; every other
\* listed child whose move succeeded is in the archive folder.
C18_ReservedStayInPlace ==
    /\ \A n \in LeftAlone :
          /\ Exists(<<n>>)
          /\ ~Exists(<<OLD_DOWNLOAD, n>>)
    /\ DoneAs("moved") \cap LeftAlone = {}
    /\ \A n \in DoneAs("moved") : Exists(<<OLD_DOWNLOAD, n>>)

\* C18 witness: after the pass the log file, desktop.ini and the Desktop.INI
\* that a pattern excludes are in the root, old.txt and the folder are in the
\* archive folder.
C18_Witness ==
    /\ mainPc = "observe"
    /\ Len(invocations) = 1
    /\ cfg.excluded_patterns # {}
    /\ {LOG_FILE, CONFIG_FILE, OLD_DOWNLOAD, "desktop.ini", "Desktop.INI"} \subseteq LeftAlone
    /\ <<"Desktop.INI">> \in files
    /\ <<OLD_DOWNLOAD, "old.txt">> \in files
    /\ <<OLD_DOWNLOAD, ArchiveFolder, "photo.png">> \in files
    /\ ~Exists(<<ArchiveFolder>>)

====
